---------------------------- MODULE Spec2Model ----------------------------
(***************************************************************************)
(* State-machine model of src/game.js (first-person raycasting shooter):   *)
(* the session state machine, the per-frame simulation (gameLoop), the     *)
(* input handlers, hit-scan combat and the timed reload.                   *)
(*                                                                         *)
(* Numeric representation (the source computes in IEEE doubles):           *)
(*   - positions are on a lattice of U units per map cell (U = 2, so the   *)
(*     spawn pose 2.5 is 5);                                               *)
(*   - time is in ticks of 1/TicksPerSecond s (0.6 s = 12, 0.15 s = 3);    *)
(*   - health and armor are in tenths of a point (100 = 1000);             *)
(*   - the facing angle is in quarter turns (pi/2), so cos and sin are     *)
(*     exact; the turn made in one frame is rounded to quarter turns;      *)
(*   - "Infinity" (the reserve of both weapons) is the value Infinity,     *)
(*     with the arithmetic JavaScript gives it.                            *)
(***************************************************************************)
EXTENDS Integers, Sequences, FiniteSets, TLC

(***************************************************************************)
(* Bounds of the model.  The source values are TARGET_KILLS = 100,         *)
(* ACTIVE_ENEMY_COUNT = 5, ammoCapacity = 8 / 20 and 300 spawn attempts;   *)
(* they are scaled down so that the state space is finite and small.      *)
(* Fire inputs are accepted by the model only while kills <= TARGET_KILLS  *)
(* (without frames the source lets the counter grow without bound).        *)
(***************************************************************************)
TARGET_KILLS == 2
ACTIVE_ENEMY_COUNT == 2
RifleCapacity == 2
LaserCapacity == 2
SpawnAttempts == 2
\* decorations spawnDecorations places (80 in the source)
TotalDecor == 1

(***************************************************************************)
(* Units.                                                                  *)
(***************************************************************************)
U == 2
TicksPerSecond == 20
HP == 10
\* JavaScript's Infinity (weapons.*.totalAmmo)
Infinity == -1

\* elapsed time (ticks) a frame callback is handed: dt is not clamped by the
\* source, and the model runs its frames 11.8 s apart (a stalled tab), when
\* the turn of one frame, 23.6 rad, is 15 quarter turns, an enemy walks
\* 11.5 cells and contact costs 118 points
DtSet == {236}

Min(a, b) == IF a <= b THEN a ELSE b
Max(a, b) == IF a >= b THEN a ELSE b
Abs(a) == IF a < 0 THEN -a ELSE a
\* Math.floor of a lattice coordinate: the map cell index
Floor(v) == v \div U

(***************************************************************************)
(* The map (game.js 193-212), row-major, rows and columns 0-based in the   *)
(* source and 1-based here.                                                *)
(***************************************************************************)
\* the map with the east border open at row 1
mapOpenBorder ==
  << <<1,1,1,1,1,1,1,1,1,1,1,1,1,1,1,1>>,
     <<1,0,0,0,0,0,0,0,0,0,0,0,0,0,0,0>>,
     <<1,0,0,0,0,1,1,1,0,0,1,1,1,0,0,1>>,
     <<1,0,0,0,0,1,0,1,0,0,1,0,1,0,0,1>>,
     <<1,0,0,0,0,1,0,1,0,0,1,0,1,0,0,1>>,
     <<1,0,0,0,0,1,1,1,0,0,1,1,1,0,0,1>>,
     <<1,0,0,0,0,0,0,0,0,0,0,0,0,0,0,1>>,
     <<1,0,0,1,1,1,0,0,0,0,0,1,1,1,0,1>>,
     <<1,0,0,1,0,1,0,0,0,0,0,1,0,1,0,1>>,
     <<1,0,0,1,1,1,0,0,0,0,0,1,1,1,0,1>>,
     <<1,0,0,0,0,0,0,0,0,0,0,0,0,0,0,1>>,
     <<1,0,0,0,0,1,1,1,0,0,1,1,1,0,0,1>>,
     <<1,0,0,0,0,1,0,1,0,0,1,0,1,0,0,1>>,
     <<1,0,0,0,0,1,0,1,0,0,1,0,1,0,0,1>>,
     <<1,0,0,0,0,1,1,1,0,0,1,1,1,0,0,1>>,
     <<1,1,1,1,1,1,1,1,1,1,1,1,1,1,1,1>> >>

map ==
  << <<1,1,1,1,1,1,1,1,1,1,1,1,1,1,1,1>>,
     <<1,0,0,0,0,0,0,0,0,0,0,0,0,0,0,1>>,
     <<1,0,0,0,0,1,1,1,0,0,1,1,1,0,0,1>>,
     <<1,0,0,0,0,1,0,1,0,0,1,0,1,0,0,1>>,
     <<1,0,0,0,0,1,0,1,0,0,1,0,1,0,0,1>>,
     <<1,0,0,0,0,1,1,1,0,0,1,1,1,0,0,1>>,
     <<1,0,0,0,0,0,0,0,0,0,0,0,0,0,0,1>>,
     <<1,0,0,1,1,1,0,0,0,0,0,1,1,1,0,1>>,
     <<1,0,0,1,0,1,0,0,0,0,0,1,0,1,0,1>>,
     <<1,0,0,1,1,1,0,0,0,0,0,1,1,1,0,1>>,
     <<1,0,0,0,0,0,0,0,0,0,0,0,0,0,0,1>>,
     <<1,0,0,0,0,1,1,1,0,0,1,1,1,0,0,1>>,
     <<1,0,0,0,0,1,0,1,0,0,1,0,1,0,0,1>>,
     <<1,0,0,0,0,1,0,1,0,0,1,0,1,0,0,1>>,
     <<1,0,0,0,0,1,1,1,0,0,1,1,1,0,0,1>>,
     <<1,1,1,1,1,1,1,1,1,1,1,1,1,1,1,1>> >>
mapWidth == Len(map[1])
mapHeight == Len(map)

\* map[row][col] as JavaScript evaluates it: a row outside the array is
\* undefined and indexing it throws a TypeError; a column outside the row
\* reads undefined (which is not === 0).
MapRead(row, col) ==
  IF row < 0 \/ row >= mapHeight THEN "TypeError"
  ELSE IF col < 0 \/ col >= mapWidth THEN "undefined"
  ELSE IF map[row + 1][col + 1] = 0 THEN "empty" ELSE "wall"

(***************************************************************************)
(* Reserve arithmetic with Infinity.                                       *)
(***************************************************************************)
AmmoPositive(t) == t = Infinity \/ t > 0
AmmoMin(n, t) == IF t = Infinity THEN n ELSE Min(n, t)
AmmoSub(t, n) == IF t = Infinity THEN Infinity ELSE t - n
AmmoAdd(m, t) == IF t = Infinity THEN Infinity ELSE m + t

WeaponKeys == {"shotgun", "laser"}

\* the weapons table as it is at load time (game.js 424-444)
weaponsTable ==
  [w \in WeaponKeys |->
     IF w = "shotgun"
       THEN [ammoCapacity |-> RifleCapacity, magazine |-> RifleCapacity,
             totalAmmo |-> Infinity, damage |-> 60]
       ELSE [ammoCapacity |-> LaserCapacity, magazine |-> LaserCapacity,
             totalAmmo |-> Infinity, damage |-> 40]]

\* initialPlayerState and the cleared movement intents (game.js 215-227, 267-271)
initialPlayer ==
  [x |-> 5, y |-> 5, angle |-> 0,
   moveForward |-> FALSE, moveBackward |-> FALSE,
   turnLeft |-> FALSE, turnRight |-> FALSE,
   strafeLeft |-> FALSE, strafeRight |-> FALSE]

\* new Enemy({x, y}) (game.js 490-498); scale is in ticks of the 0.6 s fade
DeathTicks == 12
Enemy(pos) ==
  [x |-> pos[1], y |-> pos[2], health |-> 60, alive |-> TRUE,
   dying |-> FALSE, deathTimer |-> 0, scale |-> DeathTicks]

\* lifecycle of an enemy record, as the flags encode it
IsAlive(e) == e.alive /\ ~e.dying
IsDying(e) == e.dying
IsDead(e) == ~e.alive

\* no render pass yet; no spawnEnemy call in the callback
NoRender ==
  [order |-> <<>>, floorZBuffer |-> <<>>, zBuf |-> <<>>, floor |-> {},
   rays |-> <<>>, drawn |-> <<>>]
NoSpawn == [called |-> FALSE, found |-> FALSE]

VARIABLES
  gameState,      \* "menu" | "playing"
  gameOver,       \* the session is Lost or Won
  overlay,        \* what the overlay shows: "hidden" | "lost" | "won"
  kills,
  health, armor,  \* tenths of a point
  player,
  enemies,        \* the enemies array (dead enemies are never removed)
  decorations,    \* the decorations array: the points of the sprites
  weapons,
  selectedWeapon,
  reloading,
  reloadTimer,    \* the timer handle last stored (0 = null)
  timers,         \* pending setTimeout callbacks: [id, weapon]
  muzzleTimer, bulletTimer, damageFlash,
  rafPending,     \* a gameLoop callback is scheduled
  frameOrder,     \* the steps the last gameLoop callback performed, in order
  rendered,       \* what the last render pass read: [enemies, gameOver]
  renderPass,     \* the wall and floor caster calls of the last render pass
  spawnLog        \* the spawnEnemy call of the last gameLoop callback

vars == <<gameState, gameOver, overlay, kills, health, armor, player, enemies,
          decorations, weapons, selectedWeapon, reloading, reloadTimer, timers,
          muzzleTimer, bulletTimer, damageFlash, rafPending, frameOrder,
          rendered, renderPass, spawnLog>>

Init ==
  /\ gameState = "menu"
  /\ gameOver = FALSE
  /\ overlay = "hidden"
  /\ kills = 0
  /\ health = 100 * HP
  /\ armor = 50 * HP
  /\ player = initialPlayer
  /\ enemies = <<>>
  /\ decorations = <<>>
  /\ weapons = weaponsTable
  /\ selectedWeapon = "shotgun"
  /\ reloading = FALSE
  /\ reloadTimer = 0
  /\ timers = {}
  /\ muzzleTimer = 0
  /\ bulletTimer = 0
  /\ damageFlash = 0
  /\ rafPending = TRUE
  /\ frameOrder = <<>>
  /\ rendered = [enemies |-> 0, gameOver |-> FALSE]
  /\ renderPass = NoRender
  /\ spawnLog = NoSpawn


(***************************************************************************)
(* spawnEnemy (game.js 516-546).  draws is the sequence of points the      *)
(* attempts of one call draw with Math.random(): the loop stops at the     *)
(* first draw that passes the three tests, or when the attempt budget is   *)
(* used up.                                                                *)
(***************************************************************************)
\* points Math.random() may draw (x and y in [1, mapWidth - 1) cells): a
\* free cell straight ahead of the spawn pose and 11.5 cells from it, a
\* wall cell, and a free cell 2 cells from the spawn pose
SpawnSamples == {<<28, 5>>, <<11, 5>>, <<9, 5>>}
DrawSeqs == [1..SpawnAttempts -> SpawnSamples]

Dist2(ax, ay, bx, by) == (ax - bx) * (ax - bx) + (ay - by) * (ay - by)

\* Math.sqrt(ddx*ddx + ddy*ddy) < minEnemyDist (1.5 cells) for some enemy
tooClose(es, d) ==
  \E i \in 1..Len(es) : 4 * Dist2(d[1], d[2], es[i].x, es[i].y) < 9 * U * U

\* mutant of spawnOk: the separation from the other enemies is not tested
spawnOkNoSeparation(es, p, d) ==
  /\ MapRead(Floor(d[2]), Floor(d[1])) = "empty"
  /\ Dist2(d[1], d[2], p.x, p.y) > (4 * U) * (4 * U)

\* the three tests of one attempt: empty cell, more than 4 cells from the
\* player, not too close to any enemy of the array
spawnOk(es, p, d) ==
  /\ MapRead(Floor(d[2]), Floor(d[1])) = "empty"
  /\ Dist2(d[1], d[2], p.x, p.y) > (4 * U) * (4 * U)
  /\ ~tooClose(es, d)

\* mutant of spawnLoop: when the attempt budget is used up the last point
\* drawn is taken
RECURSIVE spawnLoopForcing(_, _, _, _)
spawnLoopForcing(es, p, draws, attempts) ==
  IF attempts >= Len(draws) THEN Append(es, Enemy(draws[Len(draws)]))
  ELSE IF spawnOk(es, p, draws[attempts + 1])
         THEN Append(es, Enemy(draws[attempts + 1]))
         ELSE spawnLoopForcing(es, p, draws, attempts + 1)

RECURSIVE spawnLoop(_, _, _, _)
spawnLoop(es, p, draws, attempts) ==
  IF attempts >= Len(draws) THEN es
  ELSE IF spawnOk(es, p, draws[attempts + 1])
         THEN Append(es, Enemy(draws[attempts + 1]))
         ELSE spawnLoop(es, p, draws, attempts + 1)

spawnEnemy(es, p, draws) == spawnLoop(es, p, draws, 0)

\* the loop of startGame: ACTIVE_ENEMY_COUNT calls of spawnEnemy, each with
\* its own draws; ess is the set of arrays the calls made so far can have
\* built
RECURSIVE spawnInitial(_, _, _)
spawnInitial(ess, p, i) ==
  IF i >= ACTIVE_ENEMY_COUNT THEN ess
  ELSE spawnInitial(UNION {{spawnEnemy(es, p, draws) : draws \in DrawSeqs} :
                             es \in ess},
                    p, i + 1)

(***************************************************************************)
(* spawnDecorations (game.js 552-592).  draws is the sequence of points    *)
(* its attempts draw: a point is taken when its cell is empty, it is more  *)
(* than 5 cells from the player and not within 1 cell of a decoration      *)
(* placed before it.  The sprite drawn with the point sets only the height *)
(* of the billboard and is left out.                                       *)
(***************************************************************************)
\* the points Math.random() draws in startGame: a wall cell, a free cell 2
\* cells from the spawn pose, and a free cell 6 cells straight ahead of it,
\* behind the wall block of columns 5-7
DecorDraws == {<< <<11, 5>>, <<9, 5>>, <<17, 5>> >>}

decorOk(ds, p, d) ==
  /\ MapRead(Floor(d[2]), Floor(d[1])) = "empty"
  /\ Dist2(d[1], d[2], p.x, p.y) > (5 * U) * (5 * U)
  /\ \A i \in 1..Len(ds) : Dist2(d[1], d[2], ds[i].x, ds[i].y) >= U * U

RECURSIVE spawnDecorations(_, _, _, _)
spawnDecorations(ds, p, draws, attempts) ==
  IF Len(ds) >= TotalDecor \/ attempts >= Len(draws) THEN ds
  ELSE IF decorOk(ds, p, draws[attempts + 1])
         THEN spawnDecorations(Append(ds, [x |-> draws[attempts + 1][1],
                                           y |-> draws[attempts + 1][2]]),
                               p, draws, attempts + 1)
         ELSE spawnDecorations(ds, p, draws, attempts + 1)

(***************************************************************************)
(* Enemy.hit (game.js 499-509): the enemy after the hit and the kill       *)
(* counter after it.                                                       *)
(***************************************************************************)
hit(e, damage, k) ==
  IF ~e.alive THEN [enemy |-> e, kills |-> k]
  ELSE IF e.health - damage <= 0
    THEN [enemy |-> [e EXCEPT !.health = e.health - damage, !.dying = TRUE,
                              !.deathTimer = DeathTicks, !.scale = DeathTicks],
          kills |-> k + 1]
    ELSE [enemy |-> [e EXCEPT !.health = e.health - damage], kills |-> k]

(***************************************************************************)
(* The part of the state shootWeapon and reloadWeapon work on.             *)
(***************************************************************************)
Combat ==
  [weapons |-> weapons, reloading |-> reloading, reloadTimer |-> reloadTimer,
   timers |-> timers, enemies |-> enemies, kills |-> kills,
   muzzleTimer |-> muzzleTimer, bulletTimer |-> bulletTimer]

SetCombat(c) ==
  /\ weapons' = c.weapons
  /\ reloading' = c.reloading
  /\ reloadTimer' = c.reloadTimer
  /\ timers' = c.timers
  /\ enemies' = c.enemies
  /\ kills' = c.kills
  /\ muzzleTimer' = c.muzzleTimer
  /\ bulletTimer' = c.bulletTimer

\* clearTimeout(id): a handle that is null or has fired clears nothing
clearTimeout(ts, id) == {t \in ts : t.id # id}
\* the handle setTimeout returns: one no pending timer has
newTimerId(ts) ==
  CHOOSE i \in 1..(Cardinality(ts) + 1) :
    /\ \A t \in ts : t.id # i
    /\ \A j \in 1..(i - 1) : \E t \in ts : t.id = j

(***************************************************************************)
(* reloadWeapon (game.js 1178-1198); the callback closes over the weapon   *)
(* selected when the reload started.                                       *)
(***************************************************************************)
\* reloadWeapon without the full-magazine test
reloadWeaponFullMagazine(c, sel) ==
  IF c.reloading THEN c
  ELSE IF ~AmmoPositive(c.weapons[sel].totalAmmo)
    THEN c
    ELSE LET left == clearTimeout(c.timers, c.reloadTimer)
             id == newTimerId(left)
         IN [c EXCEPT !.reloading = TRUE,
                      !.timers = left \cup {[id |-> id, weapon |-> sel]},
                      !.reloadTimer = id]

\* reloadWeapon without the test of a reload in progress
reloadWeaponWhileReloading(c, sel) ==
  IF \/ c.weapons[sel].magazine >= c.weapons[sel].ammoCapacity
     \/ ~AmmoPositive(c.weapons[sel].totalAmmo)
    THEN c
    ELSE LET left == clearTimeout(c.timers, c.reloadTimer)
             id == newTimerId(left)
         IN [c EXCEPT !.reloading = TRUE,
                      !.timers = left \cup {[id |-> id, weapon |-> sel]},
                      !.reloadTimer = id]

reloadWeapon(c, sel) ==
  IF c.reloading THEN c
  ELSE IF \/ c.weapons[sel].magazine >= c.weapons[sel].ammoCapacity
          \/ ~AmmoPositive(c.weapons[sel].totalAmmo)
    THEN c
    ELSE LET left == clearTimeout(c.timers, c.reloadTimer)
             id == newTimerId(left)
         IN [c EXCEPT !.reloading = TRUE,
                      !.timers = left \cup {[id |-> id, weapon |-> sel]},
                      !.reloadTimer = id]

\* the callback loading a full magazine on top of the rounds left
reloadCallbackFullLoad(c, t) ==
  LET w == c.weapons[t.weapon]
      load == AmmoMin(w.ammoCapacity, w.totalAmmo)
  IN [c EXCEPT !.weapons[t.weapon].magazine = w.magazine + load,
               !.weapons[t.weapon].totalAmmo = AmmoSub(w.totalAmmo, load),
               !.reloading = FALSE,
               !.timers = c.timers \ {t}]

\* the setTimeout callback of reloadWeapon (game.js 1187-1197)
reloadCallback(c, t) ==
  LET w == c.weapons[t.weapon]
      needed == w.ammoCapacity - w.magazine
      load == AmmoMin(needed, w.totalAmmo)
  IN [c EXCEPT !.weapons[t.weapon].magazine = w.magazine + load,
               !.weapons[t.weapon].totalAmmo = AmmoSub(w.totalAmmo, load),
               !.reloading = FALSE,
               !.timers = c.timers \ {t}]

(***************************************************************************)
(* shootWeapon (game.js 1140-1175).                                        *)
(***************************************************************************)
\* forward and lateral components of (dx, dy) seen from facing angle a
Forward(dx, dy, a) ==
  CASE a = 0 -> dx [] a = 1 -> dy [] a = -1 -> -dy [] OTHER -> -dx
Lateral(dx, dy, a) ==
  CASE a = 0 -> dy [] a = 1 -> -dx [] a = -1 -> dx [] OTHER -> -dy

\* Math.abs(ang) < threshold, threshold = FOV * 0.05 = 5 degrees
\* (tan 5 deg = 0.0874887); atan2(0, 0) is 0
withinThreshold(dx, dy, a) ==
  IF dx = 0 /\ dy = 0 THEN a = 0
  ELSE /\ Forward(dx, dy, a) > 0
       /\ 10000000 * Abs(Lateral(dx, dy, a)) < 874887 * Forward(dx, dy, a)

\* the loop over enemies: index of the target (0 = null)
RECURSIVE findTarget(_, _, _, _, _)
findTarget(es, p, i, target, minDist) ==
  IF i > Len(es) THEN target
  ELSE LET e == es[i]
           dist == Dist2(e.x, e.y, p.x, p.y)
       IN IF ~e.alive THEN findTarget(es, p, i + 1, target, minDist)
          ELSE IF /\ withinThreshold(e.x - p.x, e.y - p.y, p.angle)
                  /\ (minDist = Infinity \/ dist < minDist)
            THEN findTarget(es, p, i + 1, i, dist)
            ELSE findTarget(es, p, i + 1, target, minDist)

\* the accepted shot taking a round only when it hits an enemy
shotFiredRoundPerHit(c, sel, p) ==
  LET target == findTarget(c.enemies, p, 1, 0, Infinity)
      c1 == IF target = 0 THEN c
            ELSE [c EXCEPT !.weapons[sel].magazine = @ - 1]
      h == hit(c.enemies[target], c.weapons[sel].damage, c.kills)
      c2 == IF target = 0 THEN c1
            ELSE [c1 EXCEPT !.enemies[target] = h.enemy, !.kills = h.kills]
      c3 == [c2 EXCEPT !.muzzleTimer = 3, !.bulletTimer = 2]
  IN IF /\ c3.weapons[sel].magazine <= 0
        /\ AmmoPositive(c3.weapons[sel].totalAmmo)
       THEN reloadWeapon(c3, sel) ELSE c3

\* the accepted shot: from "weapon.magazine--" to the end of shootWeapon
shotFired(c, sel, p) ==
  LET c1 == [c EXCEPT !.weapons[sel].magazine = @ - 1]
      target == findTarget(c.enemies, p, 1, 0, Infinity)
      h == hit(c.enemies[target], c.weapons[sel].damage, c.kills)
      c2 == IF target = 0 THEN c1
            ELSE [c1 EXCEPT !.enemies[target] = h.enemy, !.kills = h.kills]
      c3 == [c2 EXCEPT !.muzzleTimer = 3, !.bulletTimer = 2]
  IN IF /\ c3.weapons[sel].magazine <= 0
        /\ AmmoPositive(c3.weapons[sel].totalAmmo)
       THEN reloadWeapon(c3, sel) ELSE c3

\* shootWeapon without the gameOver test
shootWeaponAfterGameOver(c, sel, over, p) ==
  IF c.reloading THEN c
  ELSE IF c.weapons[sel].magazine <= 0
    THEN IF AmmoPositive(c.weapons[sel].totalAmmo)
           THEN reloadWeapon(c, sel) ELSE c
    ELSE shotFired(c, sel, p)

\* shootWeapon without the reloading test
shootWeaponWhileReloading(c, sel, over, p) ==
  IF over THEN c
  ELSE IF c.weapons[sel].magazine <= 0
    THEN IF AmmoPositive(c.weapons[sel].totalAmmo)
           THEN reloadWeapon(c, sel) ELSE c
    ELSE shotFired(c, sel, p)

\* shootWeapon without the empty-magazine branch
shootWeaponEmptyMagazine(c, sel, over, p) ==
  IF over \/ c.reloading THEN c
  ELSE shotFired(c, sel, p)

shootWeapon(c, sel, over, p) ==
  IF over \/ c.reloading THEN c
  ELSE IF c.weapons[sel].magazine <= 0
    THEN IF AmmoPositive(c.weapons[sel].totalAmmo)
           THEN reloadWeapon(c, sel) ELSE c
    ELSE shotFired(c, sel, p)

(***************************************************************************)
(* startGame (game.js 280-328).                                            *)
(***************************************************************************)
startGame ==
  /\ kills' = 0
  /\ health' = 100 * HP
  /\ armor' = 100 * HP
  /\ selectedWeapon' = "shotgun"
  /\ reloading' = FALSE
  /\ timers' = clearTimeout(timers, reloadTimer)
  /\ reloadTimer' = 0
  /\ gameOver' = FALSE
  /\ player' = [player EXCEPT !.x = initialPlayer.x, !.y = initialPlayer.y,
                              !.angle = initialPlayer.angle,
                              !.moveForward = FALSE, !.moveBackward = FALSE,
                              !.turnLeft = FALSE, !.turnRight = FALSE,
                              !.strafeLeft = FALSE, !.strafeRight = FALSE]
  /\ decorations' \in {spawnDecorations(<<>>, player', draws, 0) :
                          draws \in DecorDraws}
  /\ enemies' \in spawnInitial({<<>>}, player', 0)
  /\ overlay' = "hidden"
  /\ gameState' = "playing"
  /\ UNCHANGED <<weapons, muzzleTimer, bulletTimer, damageFlash, rafPending,
                 frameOrder, rendered, renderPass, spawnLog>>


(***************************************************************************)
(* updatePlayer (game.js 1087-1137): the player after the call, and        *)
(* whether the call threw (a map row outside the array).                   *)
(***************************************************************************)
Cos(a) == CASE a = 0 -> 1 [] a = 1 -> 0 [] a = -1 -> 0 [] OTHER -> -1
Sin(a) == CASE a = 1 -> 1 [] a = -1 -> -1 [] OTHER -> 0

\* rotSpeed * dt = 2 rad/s * dt, in quarter turns (pi/2 = 1.5708), rounded
TurnQuarters(dt) == (2000 * dt + 15708) \div 31416
\* moveSpeed * dt = 3 cells/s * dt, in lattice units
MoveLen(dt) == (3 * U * dt) \div TicksPerSecond

\* the two while loops that bring the angle back into [-pi, pi]
RECURSIVE normalizeAngle(_)
normalizeAngle(a) ==
  IF a < -2 THEN normalizeAngle(a + 4)
  ELSE IF a > 2 THEN normalizeAngle(a - 4)
  ELSE a

BoolInt(b) == IF b THEN 1 ELSE 0

\* mutant of updatePlayer: one test of the destination cell for both axes;
\* a blocked move stops the player
updatePlayerNoSlide(p, dt) ==
  LET fwd == BoolInt(p.moveForward) - BoolInt(p.moveBackward)
      stf == BoolInt(p.strafeLeft) - BoolInt(p.strafeRight)
      newX == p.x + (fwd * Cos(p.angle) - stf * Sin(p.angle)) * MoveLen(dt)
      newY == p.y + (fwd * Sin(p.angle) + stf * Cos(p.angle)) * MoveLen(dt)
      cell == MapRead(Floor(newY), Floor(newX))
  IN IF cell = "TypeError" THEN [player |-> p, thrown |-> TRUE]
     ELSE IF cell = "empty"
       THEN [player |-> [p EXCEPT !.x = newX, !.y = newY], thrown |-> FALSE]
     ELSE [player |-> p, thrown |-> FALSE]

updatePlayer(p, dt) ==
  LET angle == normalizeAngle(p.angle
                 - BoolInt(p.turnLeft) * TurnQuarters(dt)
                 + BoolInt(p.turnRight) * TurnQuarters(dt))
      fwd == BoolInt(p.moveForward) - BoolInt(p.moveBackward)
      stf == BoolInt(p.strafeLeft) - BoolInt(p.strafeRight)
      moveX == (fwd * Cos(angle) - stf * Sin(angle)) * MoveLen(dt)
      moveY == (fwd * Sin(angle) + stf * Cos(angle)) * MoveLen(dt)
      newX == p.x + moveX
      newY == p.y + moveY
      cellX == MapRead(Floor(p.y), Floor(newX))
      x1 == IF cellX = "empty" THEN newX ELSE p.x
      cellY == MapRead(Floor(newY), Floor(x1))
      y1 == IF cellY = "empty" THEN newY ELSE p.y
  IN IF cellX = "TypeError"
       THEN [player |-> [p EXCEPT !.angle = angle], thrown |-> TRUE]
     ELSE IF cellY = "TypeError"
       THEN [player |-> [p EXCEPT !.angle = angle, !.x = x1], thrown |-> TRUE]
     ELSE [player |-> [p EXCEPT !.angle = angle, !.x = x1, !.y = y1],
           thrown |-> FALSE]

(***************************************************************************)
(* The loop over enemies of gameLoop (game.js 1352-1409).                  *)
(***************************************************************************)
\* speed * dt = 1 cell/s * dt, in lattice units
EnemyStepLen(dt) == (U * dt) \div TicksPerSecond

\* v / dist * len, rounded to the lattice (v is one component of the vector
\* to the player, d2 the squared length of that vector)
StepToward(v, d2, len) ==
  IF d2 = 0 THEN 0
  ELSE LET n == CHOOSE k \in 0..len :
                  /\ (k = 0 \/ (2 * k - 1) * (2 * k - 1) * d2 <= 4 * v * v * len * len)
                  /\ (k = len \/ (2 * k + 1) * (2 * k + 1) * d2 > 4 * v * v * len * len)
       IN IF v < 0 THEN -n ELSE n

\* the frame's state as the callback works through it
\* one enemy of the loop, on frame state f (enemies, health, armor,
\* damageFlash, gameOver, overlay, thrown)
enemyStep(f, i, dt) ==
  LET e == f.enemies[i]
  IN IF e.dying
       THEN LET t == e.deathTimer - dt
            IN [f EXCEPT !.enemies[i] =
                  [e EXCEPT !.deathTimer = t, !.scale = Max(0, t),
                            !.alive = IF t <= 0 THEN FALSE ELSE e.alive,
                            !.dying = IF t <= 0 THEN FALSE ELSE e.dying]]
     ELSE IF ~e.alive THEN f
     ELSE
       LET d2 == Dist2(f.player.x, f.player.y, e.x, e.y)
           stepX == StepToward(f.player.x - e.x, d2, EnemyStepLen(dt))
           stepY == StepToward(f.player.y - e.y, d2, EnemyStepLen(dt))
           cellX == MapRead(Floor(e.y), Floor(e.x + stepX))
           x1 == IF cellX = "empty" THEN e.x + stepX ELSE e.x
           cellY == MapRead(Floor(e.y + stepY), Floor(e.x))
           y1 == IF cellY = "empty" THEN e.y + stepY ELSE e.y
           damage == (10 * HP * dt) \div TicksPerSecond
           armorHit == Min(f.armor, (6 * damage) \div 10)
           rest == damage - armorHit
           health1 == IF rest > 0 THEN f.health - rest ELSE f.health
       IN IF cellX = "TypeError" THEN [f EXCEPT !.thrown = TRUE]
          ELSE IF cellY = "TypeError"
            THEN [f EXCEPT !.enemies[i].x = x1, !.thrown = TRUE]
          ELSE IF 4 * Dist2(x1, y1, f.player.x, f.player.y) < U * U
            THEN [f EXCEPT !.enemies[i].x = x1, !.enemies[i].y = y1,
                           !.armor = f.armor - armorHit,
                           !.health = health1,
                           !.damageFlash = IF rest > 0 THEN 5 ELSE f.damageFlash,
                           !.gameOver = IF health1 <= 0 THEN TRUE ELSE f.gameOver,
                           !.overlay = IF health1 <= 0 THEN "lost" ELSE f.overlay]
          ELSE [f EXCEPT !.enemies[i].x = x1, !.enemies[i].y = y1]

RECURSIVE enemyLoop(_, _, _)
enemyLoop(f, i, dt) ==
  IF i > Len(f.enemies) \/ f.thrown THEN f
  ELSE enemyLoop(enemyStep(f, i, dt), i + 1, dt)

(***************************************************************************)
(* gameLoop (game.js 1299-1518).  Each step appends its name to order.     *)
(***************************************************************************)
Countdown(t, dt) == IF t > 0 THEN Max(0, t - dt) ELSE t

stepPlayer(f, dt) ==
  LET r == updatePlayer(f.player, dt)
  IN [f EXCEPT !.player = r.player, !.thrown = r.thrown,
               !.order = Append(f.order, "updatePlayer")]

stepEnemies(f, dt) ==
  LET r == enemyLoop(f, 1, dt)
  IN [r EXCEPT !.order = Append(f.order, "enemies")]

\* muzzle flash, damage flash (4 per second, in fifths) and tracer timers
stepTimers(f, dt) ==
  [f EXCEPT !.muzzleTimer = Countdown(f.muzzleTimer, dt),
            !.damageFlash = Countdown(f.damageFlash, dt),
            !.bulletTimer = Countdown(f.bulletTimer, dt),
            !.order = Append(f.order, "timers")]

(***************************************************************************)
(* The render pass (game.js 1440-1471).  Of the depth buffer the model     *)
(* keeps the column of the central ray, whose direction is the player's    *)
(* facing direction; with the angle in quarter turns that ray runs along   *)
(* a row or a column of the map.                                           *)
(***************************************************************************)
\* the DDA loop of one ray: the number of cells walked until the ray leaves
\* the map or enters a wall cell
RECURSIVE rayWalk(_, _, _, _, _)
rayWalk(mapX, mapY, stepX, stepY, n) ==
  LET nx == mapX + stepX
      ny == mapY + stepY
  IN IF ny < 0 \/ ny >= mapHeight \/ nx < 0 \/ nx >= mapWidth THEN n + 1
     ELSE IF MapRead(ny, nx) = "wall" THEN n + 1
     ELSE rayWalk(nx, ny, stepX, stepY, n + 1)

\* perpWallDist of the central ray, in lattice units: the side distance to
\* the first cell boundary plus one cell for every further cell walked
perpWallDist(p) ==
  LET mapX == Floor(p.x)
      mapY == Floor(p.y)
      sideDist == CASE Cos(p.angle) > 0 -> (mapX + 1) * U - p.x
                    [] Cos(p.angle) < 0 -> p.x - mapX * U
                    [] Sin(p.angle) > 0 -> (mapY + 1) * U - p.y
                    [] OTHER -> p.y - mapY * U
  IN sideDist + (rayWalk(mapX, mapY, Cos(p.angle), Sin(p.angle), 0) - 1) * U

\* the depth buffer castRays returns (central column)
castRays(p) == <<perpWallDist(p)>>

(***************************************************************************)
(* castRays, ray by ray (game.js 611-672).  FOV is 100 degrees and there   *)
(* are numRays = 480 columns, so the ray of column i leaves the facing     *)
(* direction by 100 * i / 480 - 50 degrees: column 240 is the central ray, *)
(* columns 24 and 456 are the rays 45 degrees to its left and right.       *)
(* These three are the columns whose direction is exact on the lattice;    *)
(* the model keeps them.  A direction is counted in eighth turns.  The     *)
(* side distances are measured along the axis; the length along a          *)
(* diagonal ray is sqrt(2) times that, so depths are kept squared.         *)
(***************************************************************************)
numRays == 480
Columns == {24, 240, 456}

\* 1e30, the deltaDist of an axis the ray runs parallel to
NoCrossing == 1000000

DirX(e) == CASE e % 8 \in {0, 1, 7} -> 1 [] e % 8 \in {3, 4, 5} -> -1 [] OTHER -> 0
DirY(e) == CASE e % 8 \in {1, 2, 3} -> 1 [] e % 8 \in {5, 6, 7} -> -1 [] OTHER -> 0

\* rayAngle of column i, in eighth turns
rayAngle(p, i) == 2 * p.angle + (i - numRays \div 2) \div 216

\* the while (!hit) loop: r holds mapX, mapY, sideDistX, sideDistY, side,
\* the cells walked and whether the walk left the map
RECURSIVE ddaLoop(_, _, _, _, _)
ddaLoop(r, stepX, stepY, deltaDistX, deltaDistY) ==
  LET n == IF r.sideDistX < r.sideDistY
             THEN [r EXCEPT !.sideDistX = @ + deltaDistX,
                            !.mapX = @ + stepX, !.side = 0]
             ELSE [r EXCEPT !.sideDistY = @ + deltaDistY,
                            !.mapY = @ + stepY, !.side = 1]
      m == [n EXCEPT !.cells = Append(@, <<n.mapX, n.mapY>>)]
  IN IF m.mapY < 0 \/ m.mapY >= mapHeight \/ m.mapX < 0 \/ m.mapX >= mapWidth
       THEN [m EXCEPT !.outside = TRUE]
     ELSE IF MapRead(m.mapY, m.mapX) = "wall" THEN m
     ELSE ddaLoop(m, stepX, stepY, deltaDistX, deltaDistY)

\* mutant of wallDist: the side distance as the walk left it
wallDistNoStepBack(r, deltaDistX, deltaDistY) ==
  IF r.side = 0 THEN r.sideDistX ELSE r.sideDistY

\* the distance to the wall after the walk: the side distance of the side
\* that was crossed last, one step back
wallDist(r, deltaDistX, deltaDistY) ==
  IF r.side = 0 THEN r.sideDistX - deltaDistX ELSE r.sideDistY - deltaDistY

\* one iteration of the for loop of castRays: the walk of column i and the
\* depth it records.  Where a diagonal ray runs through a corner of cells
\* the two side distances are equal and the test sideDistX < sideDistY
\* takes the y side.
castRay(p, i) ==
  LET rayDirX == DirX(rayAngle(p, i))
      rayDirY == DirY(rayAngle(p, i))
      mapX == Floor(p.x)
      mapY == Floor(p.y)
      deltaDistX == IF rayDirX = 0 THEN NoCrossing ELSE U
      deltaDistY == IF rayDirY = 0 THEN NoCrossing ELSE U
      sideDistX == IF rayDirX = 0 THEN NoCrossing
                   ELSE IF rayDirX < 0 THEN p.x - mapX * U
                   ELSE (mapX + 1) * U - p.x
      sideDistY == IF rayDirY = 0 THEN NoCrossing
                   ELSE IF rayDirY < 0 THEN p.y - mapY * U
                   ELSE (mapY + 1) * U - p.y
      r == ddaLoop([mapX |-> mapX, mapY |-> mapY, sideDistX |-> sideDistX,
                    sideDistY |-> sideDistY, side |-> 0, cells |-> <<>>,
                    outside |-> FALSE],
                   IF rayDirX < 0 THEN -1 ELSE 1, IF rayDirY < 0 THEN -1 ELSE 1,
                   deltaDistX, deltaDistY)
      along == wallDist(r, deltaDistX, deltaDistY)
  IN [cells |-> r.cells, side |-> r.side, outside |-> r.outside,
      depthSq |-> (rayDirX * rayDirX + rayDirY * rayDirY) * along * along]

\* the walks of the columns kept
castColumns(p) == [i \in Columns |-> castRay(p, i)]

\* world distances of floor pixels of the central column: a row at the
\* bottom of the screen and the row under the horizon, which lies farther
\* than any wall of the map
FloorDists == {U, 3 * mapWidth * U}

\* the occlusion test of drawFloorPerspective for a pixel of column col
\* (0-based) at world distance dist
floorVisible(zBuffer, col, dist) ==
  ~(col >= 0 /\ col < Len(zBuffer) /\ dist * dist > zBuffer[col + 1] * zBuffer[col + 1])

\* the floor pixels of the central column drawFloorPerspective draws
drawFloorPerspective(zBuffer) ==
  {dist \in FloorDists : floorVisible(zBuffer, 0, dist)}

(***************************************************************************)
(* drawDecorations and drawEnemies (game.js 945-1076).  A billboard whose  *)
(* direction from the player is the direction of a kept column has its     *)
(* screen-x centre in that column; of the billboards the model follows     *)
(* those.                                                                  *)
(***************************************************************************)
NoColumn == -1

\* rayIndex of the billboard at (bx, by); at the player's own point
\* Math.atan2(0, 0) is 0
rayIndex(p, bx, by) ==
  LET dx == bx - p.x
      dy == by - p.y
      on == {i \in Columns :
               /\ dx * DirY(rayAngle(p, i)) = dy * DirX(rayAngle(p, i))
               /\ dx * DirX(rayAngle(p, i)) + dy * DirY(rayAngle(p, i)) > 0}
  IN IF dx = 0 /\ dy = 0 THEN (IF p.angle = 0 THEN numRays \div 2 ELSE NoColumn)
     ELSE IF on = {} THEN NoColumn
     ELSE CHOOSE i \in on : TRUE

\* visible.sort((a, b) => db - da) on the indices ids of the array bs:
\* farthest first, equal distances in array order
farther(bs, p, i, j) ==
  \/ Dist2(bs[i].x, bs[i].y, p.x, p.y) > Dist2(bs[j].x, bs[j].y, p.x, p.y)
  \/ /\ Dist2(bs[i].x, bs[i].y, p.x, p.y) = Dist2(bs[j].x, bs[j].y, p.x, p.y)
     /\ i < j

sortVisible(bs, p, ids) ==
  [k \in 1..Cardinality(ids) |->
     CHOOSE i \in ids : Cardinality({j \in ids : farther(bs, p, j, i)}) = k - 1]

\* mutant of inFront: drawn whatever the wall depth
inFrontNoDepth(b, p, rays) ==
  rayIndex(p, b.x, b.y) \in DOMAIN rays

\* the occlusion test of the two draw loops
inFront(b, p, rays) ==
  /\ rayIndex(p, b.x, b.y) \in DOMAIN rays
  /\ Dist2(b.x, b.y, p.x, p.y) < rays[rayIndex(p, b.x, b.y)].depthSq

\* the billboards of the array bs one draw loop draws, in drawing order
drawBillboards(kind, bs, p, ids, rays) ==
  LET order == sortVisible(bs, p, ids)
      shown == SelectSeq(order, LAMBDA i : inFront(bs[i], p, rays))
  IN [k \in 1..Len(shown) |-> [kind |-> kind, index |-> shown[k]]]

drawDecorations(ds, p, rays) ==
  drawBillboards("decoration", ds, p, 1..Len(ds), rays)

drawEnemies(es, p, rays) ==
  drawBillboards("enemy", es, p,
                 {i \in 1..Len(es) : es[i].alive \/ es[i].dying}, rays)

\* the calls of the pass that produce or take a depth buffer, in order (the
\* menu backdrop has no enemies)
drawScene(p, es, ds, state) ==
  [order |-> IF state = "menu"
               THEN <<"drawFloorPerspective", "castRays", "drawDecorations">>
               ELSE <<"drawFloorPerspective", "castRays", "drawDecorations",
                      "drawEnemies">>,
   floorZBuffer |-> <<>>,
   zBuf |-> castRays(p),
   floor |-> drawFloorPerspective(<<>>),
   rays |-> castColumns(p),
   drawn |-> IF state = "menu" THEN drawDecorations(ds, p, castColumns(p))
             ELSE drawDecorations(ds, p, castColumns(p))
                    \o drawEnemies(es, p, castColumns(p))]

\* the draw calls: what they read of the state
stepRender(f) ==
  [f EXCEPT !.rendered = [enemies |-> Len(f.enemies), gameOver |-> f.gameOver],
            !.renderPass = drawScene(f.player, f.enemies, f.decorations,
                                    "playing"),
            !.order = Append(f.order, "render")]

aliveCount(es) == Cardinality({i \in 1..Len(es) : es[i].alive})

\* the spawn condition without the count of active enemies
spawnDueUncapped(f) == f.kills < TARGET_KILLS

spawnDue(f) ==
  aliveCount(f.enemies) < ACTIVE_ENEMY_COUNT /\ f.kills < TARGET_KILLS

\* the attempts of one call whose draw passes the three tests
validAttempts(es, p, draws) ==
  {i \in 1..Len(draws) : spawnOk(es, p, draws[i])}

\* the value of the attempts counter of one call when its loop ends
attemptsUsed(es, p, draws) ==
  IF validAttempts(es, p, draws) = {} THEN Len(draws)
  ELSE CHOOSE i \in validAttempts(es, p, draws) :
         \A j \in validAttempts(es, p, draws) : i <= j

\* what one spawnEnemy call did: whether an attempt found a valid point
spawnCall(es, p, draws) ==
  [called |-> TRUE, found |-> validAttempts(es, p, draws) # {}]

stepSpawn(f, draws) ==
  [f EXCEPT !.enemies = IF spawnDue(f)
                          THEN spawnEnemy(f.enemies, f.player, draws)
                          ELSE f.enemies,
            !.spawnLog = IF spawnDue(f)
                           THEN spawnCall(f.enemies, f.player, draws)
                           ELSE NoSpawn,
            !.order = Append(f.order, "spawn")]

stepWin(f) ==
  [f EXCEPT !.gameOver = IF f.kills >= TARGET_KILLS THEN TRUE ELSE f.gameOver,
            !.overlay = IF f.kills >= TARGET_KILLS THEN "won" ELSE f.overlay,
            !.order = Append(f.order, "win")]

\* the body of "if (!gameOver) { ... }": a throw ends the callback where it
\* happens, before requestAnimationFrame
\* up to the render pass
frameToRender(f, dt) ==
  LET f1 == stepPlayer(f, dt)
      f2 == stepEnemies(f1, dt)
  IN IF f1.thrown THEN f1
     ELSE IF f2.thrown THEN f2
     ELSE stepRender(stepTimers(f2, dt))

\* from the spawn step to requestAnimationFrame
frameFromSpawn(f, draws) ==
  [stepWin(stepSpawn(f, draws)) EXCEPT !.raf = TRUE]

playingFrame(f, dt, draws) ==
  LET g == frameToRender(f, dt)
  IN IF g.thrown THEN g ELSE frameFromSpawn(g, draws)

\* the draws of the frame's spawnEnemy call, when the frame makes one
spawnDraws(f) ==
  IF ~f.thrown /\ spawnDue(f) THEN DrawSeqs ELSE {<<>>}

FrameState ==
  [player |-> player, enemies |-> enemies, decorations |-> decorations,
   health |-> health,
   armor |-> armor, kills |-> kills, damageFlash |-> damageFlash,
   muzzleTimer |-> muzzleTimer, bulletTimer |-> bulletTimer,
   gameOver |-> gameOver, overlay |-> "hidden", rendered |-> rendered,
   renderPass |-> renderPass, spawnLog |-> NoSpawn,
   order |-> <<>>, thrown |-> FALSE, raf |-> FALSE]

gameLoop(dt) ==
  /\ rafPending
  /\ IF gameState = "menu"
       THEN /\ frameOrder' = <<"render">>
            /\ rendered' = [enemies |-> Len(enemies), gameOver |-> gameOver]
            /\ renderPass' = drawScene(player, enemies, decorations, "menu")
            /\ spawnLog' = NoSpawn
            /\ rafPending' = TRUE
            /\ UNCHANGED <<player, enemies, health, armor, damageFlash,
                           muzzleTimer, bulletTimer, gameOver, overlay>>
     ELSE IF ~gameOver
       THEN \E g \in {frameToRender(FrameState, dt)} :
            \E f \in {IF g.thrown THEN g ELSE frameFromSpawn(g, draws) :
                        draws \in spawnDraws(g)} :
               /\ player' = f.player
               /\ enemies' = f.enemies
               /\ health' = f.health
               /\ armor' = f.armor
               /\ damageFlash' = f.damageFlash
               /\ muzzleTimer' = f.muzzleTimer
               /\ bulletTimer' = f.bulletTimer
               /\ gameOver' = f.gameOver
               /\ overlay' = f.overlay
               /\ rendered' = f.rendered
               /\ renderPass' = f.renderPass
               /\ spawnLog' = f.spawnLog
               /\ frameOrder' = f.order
               /\ rafPending' = f.raf
     ELSE /\ frameOrder' = <<>>
          /\ rafPending' = FALSE
          /\ spawnLog' = NoSpawn
          /\ UNCHANGED <<player, enemies, health, armor, damageFlash,
                         muzzleTimer, bulletTimer, gameOver, overlay, rendered,
                         renderPass>>
  /\ UNCHANGED <<gameState, kills, decorations, weapons, selectedWeapon,
                 reloading, reloadTimer, timers>>

(***************************************************************************)
(* Input handlers (game.js 1201-1244) and the reload timer.                *)
(***************************************************************************)
\* key codes the model presses: confirm, turn right, weapon select, reload,
\* fire and an unbound key
KeyCodes == {"Enter", "KeyD", "Digit1", "Digit2", "KeyR", "Space"}

\* the switch of the keydown handler, on the player's intents
keydownPlayer(p, code) ==
  CASE code = "KeyW" -> [p EXCEPT !.moveForward = TRUE]
    [] code = "KeyS" -> [p EXCEPT !.moveBackward = TRUE]
    [] code = "KeyA" -> [p EXCEPT !.turnLeft = TRUE]
    [] code = "KeyD" -> [p EXCEPT !.turnRight = TRUE]
    [] code = "KeyQ" -> [p EXCEPT !.strafeLeft = TRUE]
    [] code = "KeyE" -> [p EXCEPT !.strafeRight = TRUE]
    [] OTHER -> p

keyupPlayer(p, code) ==
  CASE code = "KeyW" -> [p EXCEPT !.moveForward = FALSE]
    [] code = "KeyS" -> [p EXCEPT !.moveBackward = FALSE]
    [] code = "KeyA" -> [p EXCEPT !.turnLeft = FALSE]
    [] code = "KeyD" -> [p EXCEPT !.turnRight = FALSE]
    [] code = "KeyQ" -> [p EXCEPT !.strafeLeft = FALSE]
    [] code = "KeyE" -> [p EXCEPT !.strafeRight = FALSE]
    [] OTHER -> p

\* the model's cap on the kill counter
FireAllowed == kills <= TARGET_KILLS

\* what the keydown handler does to the combat state
keydownCombat(c, code, sel, over, p) ==
  CASE code = "KeyR" -> reloadWeapon(c, sel)
    [] code = "Space" -> shootWeapon(c, sel, over, p)
    [] OTHER -> c

keydownSelect(sel, code) ==
  CASE code = "Digit1" -> "shotgun"
    [] code = "Digit2" -> "laser"
    [] OTHER -> sel

keydown(code) ==
  /\ code = "Space" => FireAllowed
  /\ IF gameState = "menu"
       THEN IF code = "Enter"
              THEN startGame
              ELSE UNCHANGED vars
     ELSE IF gameOver THEN UNCHANGED vars
     ELSE /\ player' = keydownPlayer(player, code)
          /\ selectedWeapon' = keydownSelect(selectedWeapon, code)
          /\ \E c \in {keydownCombat(Combat, code, selectedWeapon, gameOver, player)} :
               SetCombat(c)
          /\ UNCHANGED <<gameState, gameOver, overlay, health, armor,
                         decorations, damageFlash, rafPending, frameOrder,
                         rendered, renderPass, spawnLog>>

keyup(code) ==
  /\ player' = keyupPlayer(player, code)
  /\ UNCHANGED <<gameState, gameOver, overlay, kills, health, armor, enemies,
                 decorations, weapons, selectedWeapon, reloading, reloadTimer, timers,
                 muzzleTimer, bulletTimer, damageFlash, rafPending,
                 frameOrder, rendered, renderPass, spawnLog>>

\* the canvas click handler
click ==
  /\ FireAllowed
  /\ \E c \in {shootWeapon(Combat, selectedWeapon, gameOver, player)} :
       SetCombat(c)
  /\ UNCHANGED <<gameState, gameOver, overlay, health, armor, player,
                 decorations, selectedWeapon, damageFlash, rafPending,
                 frameOrder, rendered, renderPass, spawnLog>>

\* a pending reload timer fires
timerFires(t) ==
  /\ t \in timers
  /\ \E c \in {reloadCallback(Combat, t)} : SetCombat(c)
  /\ UNCHANGED <<gameState, gameOver, overlay, health, armor, player,
                 decorations, selectedWeapon, damageFlash, rafPending,
                 frameOrder, rendered, renderPass, spawnLog>>

KeyDown == \E code \in KeyCodes : keydown(code)
KeyUp == \E code \in {"KeyD"} : keyup(code)
Click == click
TimerFires == \E t \in timers : timerFires(t)
Frame == \E dt \in DtSet : gameLoop(dt)

Next == KeyDown \/ KeyUp \/ Click \/ TimerFires \/ Frame

Spec == Init /\ [][Next]_vars

(***************************************************************************)
(* Sessions that begin in Playing.  Playing(p, es, ds) is a Playing       *)
(* session before its first frame callback, with the player at pose p,     *)
(* the enemies array es and the decorations array ds; with p =             *)
(* initialPlayer it is the state startGame leaves when Enter is pressed    *)
(* before the first frame callback and its spawn calls build es and ds.    *)
(***************************************************************************)
\* the decorations array startGame builds
startDecorations ==
  CHOOSE ds \in {spawnDecorations(<<>>, initialPlayer, draws, 0) :
                   draws \in DecorDraws} : TRUE

Playing(p, es, ds) ==
  /\ gameState = "playing"
  /\ gameOver = FALSE
  /\ overlay = "hidden"
  /\ kills = 0
  /\ health = 100 * HP
  /\ armor = 100 * HP
  /\ player = p
  /\ enemies = es
  /\ decorations = ds
  /\ weapons = weaponsTable
  /\ selectedWeapon = "shotgun"
  /\ reloading = FALSE
  /\ reloadTimer = 0
  /\ timers = {}
  /\ muzzleTimer = 0
  /\ bulletTimer = 0
  /\ damageFlash = 0
  /\ rafPending = TRUE
  /\ frameOrder = <<>>
  /\ rendered = [enemies |-> 0, gameOver |-> FALSE]
  /\ renderPass = NoRender
  /\ spawnLog = NoSpawn

\* the two calls of startGame draw a free cell straight ahead of the player
\* and a free cell outside the line of fire
InitSlow ==
  Playing(initialPlayer,
          spawnEnemy(spawnEnemy(<<>>, initialPlayer, << <<28, 5>> >>),
                     initialPlayer, << <<16, 3>> >>),
          startDecorations)

\* frames 0.2 s apart: no enemy comes within reach of the player, and a
\* death countdown of 0.6 s spans three frames
DtSetSlow == {4}
\* the combat keys: fire, weapon select and reload
KeyCodesSlow == {"Space", "Digit1", "Digit2", "KeyR"}
KeyDownSlow == \E code \in KeyCodesSlow : keydown(code)
FrameSlow == \E dt \in DtSetSlow : gameLoop(dt)

NextSlow == KeyDownSlow \/ TimerFires \/ FrameSlow

SpecSlow == InitSlow /\ [][NextSlow]_vars

(***************************************************************************)
(* One frame of movement.  The session is Playing, the player stands at a  *)
(* pose of the open area around the spawn point (map rows 1-6, columns     *)
(* 1-4), the enemies are where spawnEnemy has just put them; movement keys *)
(* go down and up, and the first frame callback arrives after dt.          *)
(***************************************************************************)
\* lattice coordinates of the player: cells 1, 2 and 4 of the columns,
\* cells 1, 2 and 6 of the rows
PoseXs == {3, 5, 9}
PoseYs == {3, 5, 13}
PoseAngles == {-1, 0, 1, 2}
PoseSet ==
  {[initialPlayer EXCEPT !.x = x, !.y = y, !.angle = a] :
     x \in PoseXs, y \in PoseYs, a \in PoseAngles}

\* points the first spawnEnemy call draws: next to the corner of the wall
\* block of rows 2-5, columns 5-7; straight ahead of the spawn pose; in the
\* open row below the block.  The second call draws the far corner.
EnemySamples == {<<16, 3>>, <<28, 5>>, <<13, 13>>}
FarCorner == <<28, 28>>

InitMove ==
  \E p \in PoseSet : \E d \in EnemySamples :
    Playing(p, spawnEnemy(spawnEnemy(<<>>, p, <<d>>), p, <<FarCorner>>),
            startDecorations)

\* elapsed times of the frame (ticks): none, 0.5 s, 0.7 s, 1 s, 2 s and 3 s
DtSetMove == {0, 10, 14, 20, 40, 60}
MoveKeys == {"KeyW", "KeyS", "KeyQ", "KeyE"}

\* the keys are worked before the frame callback
KeyDownMove == frameOrder = <<>> /\ \E code \in MoveKeys : keydown(code)
KeyUpMove == frameOrder = <<>> /\ \E code \in MoveKeys : keyup(code)
\* the frame callback that runs with elapsed time dt
FrameAfter(dt) == gameLoop(dt)
FrameMove == frameOrder = <<>> /\ \E dt \in DtSetMove : FrameAfter(dt)

NextMove == KeyDownMove \/ KeyUpMove \/ FrameMove

SpecMove == InitMove /\ [][NextMove]_vars

(***************************************************************************)
(* The view from every point.  The session is Playing; the player stands   *)
(* at a lattice point of an empty cell and faces along an axis; one enemy  *)
(* has walked to a sample point and the other stands in the far corner;    *)
(* startGame has placed one decoration.  The frame callback arrives with   *)
(* no time elapsed, so nothing moves and the callback is its render pass.  *)
(***************************************************************************)
ViewPoses ==
  {p \in {[initialPlayer EXCEPT !.x = x, !.y = y, !.angle = a] :
            x \in U..((mapWidth - 1) * U - 1),
            y \in U..((mapHeight - 1) * U - 1), a \in PoseAngles} :
     MapRead(Floor(p.y), Floor(p.x)) = "empty"}

\* where the walking enemy stands: in the open area of the spawn pose, and
\* in the corridor of column 8 above and below the decoration there
ViewEnemySamples == {<<9, 5>>, <<17, 3>>, <<17, 13>>}
\* the point spawnDecorations draws: in the corridor of column 8, and in the
\* corridor of row 8
ViewDecorSamples == {<<17, 5>>, <<5, 17>>}

InitView ==
  \E p \in ViewPoses : \E e \in ViewEnemySamples : \E d \in ViewDecorSamples :
    Playing(p,
            [i \in 1..ACTIVE_ENEMY_COUNT |->
               IF i = 1 THEN Enemy(e) ELSE Enemy(FarCorner)],
            spawnDecorations(<<>>, initialPlayer, <<d>>, 0))

DtSetView == {0}
KeyDownView == \E code \in {"KeyD"} : keydown(code)
FrameView == \E dt \in DtSetView : gameLoop(dt)

NextView == KeyDownView \/ FrameView

SpecView == InitView /\ [][NextView]_vars

(***************************************************************************)
(* Properties.                                                             *)
(***************************************************************************)
\* the rounds in the magazines, by weapon
magazines(ws) == [w \in WeaponKeys |-> ws[w].magazine]
\* the enemy a shot fired now would hit (0: none)
targetNow == findTarget(enemies, player, 1, 0, Infinity)
\* a fire input (Space or click) is handled in this step
FireInput == Click \/ keydown("Space")

\* C1: in Playing the kill counter grows in a step by exactly the number of
\* enemies that go from Alive to Dying in it, so no enemy counts twice, also
\* when it is hit while Dying.
C1_KillPerDeath ==
  [][gameState = "playing" =>
       kills' - kills =
         Cardinality({i \in 1..Len(enemies) :
                        IsAlive(enemies[i]) /\ IsDying(enemies'[i])})]_vars

\* C2: the kill counter never exceeds TARGET_KILLS, and when the session is
\* Won the counter equals TARGET_KILLS.
C2_WonAtTarget ==
  /\ kills <= TARGET_KILLS
  /\ overlay = "won" => kills = TARGET_KILLS

\* C3: once gameOver is set, no step changes the player pose, the enemies,
\* health, armor, the kill counter or the selected weapon, gameOver stays
\* set and the state stays Playing-terminal; key presses and clicks change
\* nothing at all; a frame callback that runs schedules no further one, and
\* nothing else schedules one.
C3_TerminalIsFrozen ==
  [][gameOver =>
       /\ gameOver' /\ gameState' = gameState
       /\ player'.x = player.x /\ player'.y = player.y
       /\ player'.angle = player.angle
       /\ enemies' = enemies
       /\ health' = health /\ armor' = armor /\ kills' = kills
       /\ selectedWeapon' = selectedWeapon
       /\ rafPending' => rafPending
       /\ Frame => ~rafPending'
       /\ (KeyDown \/ Click) => UNCHANGED vars]_vars

\* C3 witness: the session is Lost with an enemy still Alive and the turn
\* key held, and the callback scheduled by the terminal frame has run.
C3_Witness ==
  /\ gameOver /\ overlay = "lost" /\ ~rafPending
  /\ player.turnRight
  /\ \E i \in 1..Len(enemies) : IsAlive(enemies[i])

\* C4: a Playing frame performs timers, player, enemies (with contact and
\* loss), spawn, win and render in this order, so what the render pass read
\* (the enemy set, the terminal flag) is the state the frame ends in.
C4_FrameOrder ==
  Len(frameOrder) > 1 =>
    /\ frameOrder = <<"timers", "updatePlayer", "enemies", "spawn", "win", "render">>
    /\ rendered = [enemies |-> Len(enemies), gameOver |-> gameOver]

\* C5: in Menu a click, and a press of any key but Enter, leaves the
\* magazines, the reload flag and timer, the muzzle and bullet timers, the
\* player, the enemies and the kill counter unchanged.
C5_MenuIgnoresOtherInput ==
  [][(gameState = "menu"
        /\ (Click \/ \E code \in KeyCodes \ {"Enter"} : keydown(code))) =>
       UNCHANGED <<weapons, reloading, reloadTimer, timers, muzzleTimer,
                   bulletTimer, player, enemies, kills>>]_vars

\* C6: right after startGame the player is at the spawn pose with no intent
\* set, kills = 0, health = armor = 100, the Rifle is selected, no reload is
\* in progress or pending, every magazine is at capacity, the enemies are at
\* most ACTIVE_ENEMY_COUNT new Alive ones at full health, and the state is
\* Playing.
C6_StartGameResetsAll ==
  [][(gameState = "menu" /\ gameState' = "playing") =>
       /\ player' = initialPlayer
       /\ kills' = 0 /\ health' = 100 * HP /\ armor' = 100 * HP
       /\ selectedWeapon' = "shotgun"
       /\ ~reloading' /\ timers' = {}
       /\ \A w \in WeaponKeys : weapons'[w].magazine = weapons'[w].ammoCapacity
       /\ Len(enemies') <= ACTIVE_ENEMY_COUNT
       /\ \A i \in 1..Len(enemies') :
            IsAlive(enemies'[i]) /\ enemies'[i].health = 60
       /\ ~gameOver']_vars

\* C7: while a reload is in progress exactly one completion is pending, and
\* no step short of the completion (a repeated reload request among them)
\* changes the magazines, the reserves or the pending timer; the completion
\* sets the magazine of the reloaded weapon to min(capacity, magazine +
\* reserve), takes exactly the loaded rounds from the reserve, so that
\* magazine + reserve is unchanged, and leaves the other weapon alone.
C7_ReloadCompletesOnce ==
  [][/\ reloading => Cardinality(timers) = 1
     /\ ~reloading => timers = {}
     /\ (reloading /\ reloading') => UNCHANGED <<weapons, timers, reloadTimer>>
     /\ \A t \in timers : timerFires(t) =>
          LET w == weapons[t.weapon]
              w2 == weapons'[t.weapon]
          IN /\ w2.magazine = AmmoMin(w.ammoCapacity, AmmoAdd(w.magazine, w.totalAmmo))
             /\ w2.totalAmmo = AmmoSub(w.totalAmmo, w2.magazine - w.magazine)
             /\ AmmoAdd(w2.magazine, w2.totalAmmo) = AmmoAdd(w.magazine, w.totalAmmo)
             /\ \A o \in WeaponKeys \ {t.weapon} : weapons'[o] = weapons[o]
             /\ ~reloading' /\ timers' = {}]_vars

\* C7 witness: in Playing, after shots that killed, a reload started in this
\* session has completed and both magazines are at capacity.
C7_Witness ==
  /\ gameState = "playing" /\ kills > 0
  /\ reloadTimer # 0 /\ ~reloading /\ timers = {}
  /\ \A w \in WeaponKeys : weapons[w].magazine = weapons[w].ammoCapacity

\* C8: while a reload is in progress a fire input changes nothing, and as
\* long as the reload stays in progress no magazine, no enemy's health and
\* not the kill counter changes, and the muzzle and bullet timers only run
\* down.
C8_NoFireWhileReloading ==
  [][reloading =>
       /\ FireInput => UNCHANGED vars
       /\ reloading' =>
            /\ magazines(weapons') = magazines(weapons)
            /\ kills' = kills
            /\ \A i \in 1..Len(enemies) : enemies'[i].health = enemies[i].health
            /\ muzzleTimer' <= muzzleTimer
            /\ bulletTimer' <= bulletTimer]_vars

\* C8 witness: a reload is in progress in Playing while the selected weapon
\* has rounds in its magazine and an enemy is in the crosshair.
C8_Witness ==
  /\ gameState = "playing" /\ ~gameOver /\ FireAllowed
  /\ reloading
  /\ weapons[selectedWeapon].magazine > 0
  /\ targetNow # 0

\* C9: a reload request (KeyR in Playing) made while a reload is in
\* progress, while the selected magazine is at capacity or while its reserve
\* is empty changes neither the reload flag, nor the pending timer, nor any
\* magazine or reserve.
C9_ReloadRequestNoOp ==
  [][(/\ gameState = "playing"
      /\ \/ reloading
         \/ weapons[selectedWeapon].magazine >= weapons[selectedWeapon].ammoCapacity
         \/ ~AmmoPositive(weapons[selectedWeapon].totalAmmo)
      /\ keydown("KeyR")) =>
       UNCHANGED <<reloading, reloadTimer, timers, weapons>>]_vars

\* C9 witness: in Playing, after a reload of this session has completed, the
\* selected weapon's magazine is at capacity while the other one is not.
C9_Witness ==
  /\ gameState = "playing" /\ ~gameOver
  /\ ~reloading /\ reloadTimer # 0
  /\ weapons[selectedWeapon].magazine = weapons[selectedWeapon].ammoCapacity
  /\ \E w \in WeaponKeys : weapons[w].magazine < weapons[w].ammoCapacity

\* C10: a fire input in Playing with the selected magazine empty, its
\* reserve not empty and no reload in progress starts a reload of the
\* selected weapon and changes nothing else; no magazine ever goes below 0;
\* and a step that empties a magazine leaves a reload of that weapon in
\* progress.
C10_EmptyMagazineFireReloads ==
  [][/\ (/\ gameState = "playing" /\ ~gameOver /\ ~reloading
         /\ weapons[selectedWeapon].magazine = 0
         /\ AmmoPositive(weapons[selectedWeapon].totalAmmo)
         /\ FireInput) =>
          /\ reloading'
          /\ timers' = {[id |-> reloadTimer', weapon |-> selectedWeapon]}
          /\ UNCHANGED <<weapons, enemies, kills, muzzleTimer, bulletTimer,
                         player, selectedWeapon, health, armor, gameOver,
                         gameState>>
     /\ \A w \in WeaponKeys :
          /\ weapons'[w].magazine >= 0
          /\ (weapons[w].magazine > 0 /\ weapons'[w].magazine = 0) =>
               (reloading' /\ timers' = {[id |-> reloadTimer', weapon |-> w]})]_vars

\* C10 witness: in Playing the selected magazine is empty and no reload is
\* in progress (the reload that the emptying shot started was cancelled by
\* startGame), and a fire input is accepted.
C10_Witness ==
  /\ gameState = "playing" /\ ~gameOver /\ FireAllowed
  /\ ~reloading
  /\ weapons[selectedWeapon].magazine = 0

\* enemies of es whose bearing from p is within the firing threshold and
\* that are in lifecycle state Alive
aliveInSight(es, p) ==
  {i \in 1..Len(es) :
     IsAlive(es[i]) /\ withinThreshold(es[i].x - p.x, es[i].y - p.y, p.angle)}
\* the nearest of them: none is strictly nearer
nearestInSight(es, p) ==
  {i \in aliveInSight(es, p) :
     \A j \in aliveInSight(es, p) :
       Dist2(es[i].x, es[i].y, p.x, p.y) <= Dist2(es[j].x, es[j].y, p.x, p.y)}
\* enemies whose health differs between es and es2
damaged(es, es2) == {i \in 1..Len(es) : es2[i].health # es[i].health}

\* C11: a step that takes a round from the selected magazine (an accepted
\* shot) changes the health of at most one enemy; that enemy is a nearest one
\* among the enemies that are Alive and within the threshold, and it loses
\* exactly the selected weapon's damage; when no Alive enemy is within the
\* threshold no enemy's health changes.
C11_ShotHitsNearestAlive ==
  [][weapons'[selectedWeapon].magazine = weapons[selectedWeapon].magazine - 1 =>
       /\ Cardinality(damaged(enemies, enemies')) <= 1
       /\ damaged(enemies, enemies') \subseteq nearestInSight(enemies, player)
       /\ \A i \in damaged(enemies, enemies') :
            enemies'[i].health = enemies[i].health - weapons[selectedWeapon].damage
       /\ aliveInSight(enemies, player) # {} =>
            damaged(enemies, enemies') # {}]_vars

\* the enemies in state Alive when the frame reaches its spawn step: the
\* enemies of the array as the enemy loop left them
aliveAtSpawnStep ==
  Cardinality({i \in 1..Len(enemies) : IsAlive(enemies'[i])})

\* C12: in a frame that reaches the spawn step, spawnEnemy is called when
\* fewer than ACTIVE_ENEMY_COUNT enemies are Alive and kills < TARGET_KILLS;
\* the frame adds at most one enemy, and none when kills >= TARGET_KILLS.
C12_SpawnWhenBelowTarget ==
  [][FrameSlow /\ frameOrder' # <<>> /\ frameOrder'[Len(frameOrder')] = "win" =>
       /\ aliveAtSpawnStep < ACTIVE_ENEMY_COUNT /\ kills < TARGET_KILLS =>
            spawnLog'.called
       /\ Len(enemies') <= Len(enemies) + 1
       /\ kills >= TARGET_KILLS => Len(enemies') = Len(enemies)]_vars

\* the indices of the enemies a step adds to the array
spawned ==
  IF gameState = "menu" THEN 1..Len(enemies')
  ELSE (Len(enemies) + 1)..Len(enemies')

\* C13: every enemy a step adds to the array stands, in the state the step
\* leaves, in an empty map cell, more than 4 cells from the player and at
\* least 1.5 cells from every enemy that was in the array before it.
C13_SpawnPlacement ==
  [][Len(enemies') > Len(enemies) =>
       \A j \in spawned :
         /\ MapRead(Floor(enemies'[j].y), Floor(enemies'[j].x)) = "empty"
         /\ Dist2(enemies'[j].x, enemies'[j].y, player'.x, player'.y)
              > (4 * U) * (4 * U)
         /\ \A i \in 1..(j - 1) :
              4 * Dist2(enemies'[j].x, enemies'[j].y, enemies'[i].x, enemies'[i].y)
                >= 9 * U * U]_vars

\* a frame's spawnEnemy call has added an enemy to an array that held others
C13_Witness ==
  /\ spawnLog.called /\ spawnLog.found
  /\ Len(enemies) >= 2
  /\ frameOrder # <<>> /\ frameOrder[Len(frameOrder)] = "win"

\* a step that is a gameLoop callback of a Playing session and changes the
\* state (the conjuncts before Frame repeat what gameLoop leaves unchanged)
PlayingFrame ==
  /\ gameState = "playing" /\ ~gameOver /\ rafPending
  /\ UNCHANGED <<gameState, kills, weapons, selectedWeapon, reloading,
                 reloadTimer, timers>>
  /\ player'.turnRight = player.turnRight
  /\ vars' # vars
  /\ Frame

\* the condition of the spawn step as the frame evaluates it, on the array
\* the enemy loop left
spawnConditionAtSpawnStep ==
  /\ Cardinality({i \in 1..Len(enemies) : enemies'[i].alive}) < ACTIVE_ENEMY_COUNT
  /\ kills < TARGET_KILLS

\* the enemies array as the enemy loop of the frame left it
arrayAtSpawnStep == SubSeq(enemies', 1, Len(enemies))

MoveFrame == frameOrder = <<>> /\ frameOrder' # <<>>

Sign(v) == IF v < 0 THEN -1 ELSE IF v > 0 THEN 1 ELSE 0

\* the map cells <<row, col>> the straight segment from (ax, ay) to (bx, by)
\* passes through; the displacement is along an axis or a diagonal, so the
\* segment is sampled every half lattice unit
segmentCells(ax, ay, bx, by) ==
  {<<(2 * ay + Sign(by - ay) * k) \div (2 * U),
     (2 * ax + Sign(bx - ax) * k) \div (2 * U)>> :
     k \in 0..(2 * Max(Abs(bx - ax), Abs(by - ay)))}

\* C15: in every frame the player is in an empty cell before and after
\* updatePlayer, and no wall cell lies on the segment from the old to the
\* new position.
C15_NoTunnelling ==
  [][MoveFrame =>
       /\ MapRead(Floor(player.y), Floor(player.x)) = "empty"
       /\ MapRead(Floor(player'.y), Floor(player'.x)) = "empty"
       /\ \A c \in segmentCells(player.x, player.y, player'.x, player'.y) :
            MapRead(c[1], c[2]) # "wall"]_vars

\* the move the player's intents ask of a frame with elapsed time dt
wantedX(p, dt) ==
  ((BoolInt(p.moveForward) - BoolInt(p.moveBackward)) * Cos(p.angle)
   - (BoolInt(p.strafeLeft) - BoolInt(p.strafeRight)) * Sin(p.angle)) * MoveLen(dt)
wantedY(p, dt) ==
  ((BoolInt(p.moveForward) - BoolInt(p.moveBackward)) * Sin(p.angle)
   + (BoolInt(p.strafeLeft) - BoolInt(p.strafeRight)) * Cos(p.angle)) * MoveLen(dt)
\* the destination cell of the x-component at the current y is not empty
blockedX(p, dt) ==
  MapRead(Floor(p.y), Floor(p.x + wantedX(p, dt))) # "empty"
\* the destination cell of the y-component at x is not empty
blockedY(p, x, dt) ==
  MapRead(Floor(p.y + wantedY(p, dt)), Floor(x)) # "empty"

\* C16: in a frame with elapsed time dt the x-component of the move is
\* applied exactly when its destination cell at the player's y is empty, the
\* y-component exactly when its destination cell at the player's x (the x the
\* first decision left) is empty; when one axis is blocked and the other is
\* not, the player moves by the full component along the free axis.
C16_AxisSeparated ==
  [][MoveFrame =>
       \A dt \in DtSetMove :
         FrameAfter(dt) =>
           /\ player'.x = player.x + wantedX(player, dt) <=> ~blockedX(player, dt)
           /\ player'.y = player.y + wantedY(player, dt)
                <=> ~blockedY(player, player'.x, dt)
           /\ blockedX(player, dt) /\ ~blockedY(player, player.x, dt) =>
                /\ player'.x = player.x
                /\ player'.y = player.y + wantedY(player, dt)
           /\ ~blockedX(player, dt) /\ blockedY(player, player'.x, dt) =>
                /\ player'.x = player.x + wantedX(player, dt)
                /\ player'.y = player.y]_vars

\* after a frame with W and Q held by a player facing +x: the player is
\* still on the leftmost column of PoseXs, so the x-component (+x) was
\* blocked, and has left the rows of PoseYs, so the y-component was applied
C16_Witness ==
  /\ frameOrder # <<>>
  /\ player.angle = 0
  /\ player.moveForward /\ ~player.moveBackward
  /\ player.strafeLeft /\ ~player.strafeRight
  /\ \A x \in PoseXs : player.x <= x
  /\ player.y \notin PoseYs

\* C17: every enemy of the array is located in an empty map cell.
C17_EnemiesInEmptyCells ==
  \A i \in 1..Len(enemies) :
    MapRead(Floor(enemies[i].y), Floor(enemies[i].x)) = "empty"

\* C18: the session is Lost exactly when health has reached zero: a Playing
\* session whose health is <= 0 is over and shows the Lost overlay, and the
\* Lost overlay is shown only with health <= 0.
C18_LostIffHealthZero ==
  /\ gameState = "playing" /\ health <= 0 => gameOver /\ overlay = "lost"
  /\ overlay = "lost" => health <= 0

\* C19: for every elapsed time the frame callback of a Playing session runs
\* to its end, the win check, without an exception, and schedules the next
\* frame unless the session has ended in it.
C19_FrameCompletes ==
  [][MoveFrame =>
       /\ frameOrder'[Len(frameOrder')] = "win"
       /\ rafPending' \/ gameOver']_vars

\* the place of a call in the order of a render pass
callIndex(order, call) == CHOOSE i \in 1..Len(order) : order[i] = call

\* C20: in every render pass castRays runs before drawFloorPerspective, the
\* floor caster is handed the depth buffer castRays produced in that pass,
\* and no floor pixel is drawn whose world distance exceeds the depth of
\* its column.
C20_FloorUsesDepthBuffer ==
  renderPass.order # <<>> =>
    /\ callIndex(renderPass.order, "castRays")
         < callIndex(renderPass.order, "drawFloorPerspective")
    /\ renderPass.floorZBuffer = renderPass.zBuf
    /\ \A dist \in renderPass.floor : dist <= renderPass.zBuf[1]

\* a step of the view specification that is a frame callback with a render
\* pass
ViewFrame ==
  /\ gameState = "playing" /\ ~gameOver /\ rafPending
  /\ UNCHANGED <<player, decorations>>
  /\ FrameView

\* the billboard of the given kind and index is among those the render
\* pass of the step drew
drawnInPass(kind, i) ==
  \E k \in 1..Len(renderPass'.drawn) :
    renderPass'.drawn[k] = [kind |-> kind, index |-> i]

\* the billboard at (bx, by) has its screen-x centre in a column the model
\* keeps
onColumn(bx, by) == rayIndex(player', bx, by) \in Columns

\* the depth the wall caster of the step recorded for the column of the
\* billboard at (bx, by), squared
wallDepthSq(bx, by) == renderPass'.rays[rayIndex(player', bx, by)].depthSq

\* C21: in a render pass every enemy that is Alive or Dying and every
\* decoration whose screen-x centre is in a column of the depth buffer is
\* drawn if and only if its distance to the player is strictly less than
\* the depth the wall caster recorded for that column in the same pass.
C21_BillboardDepthTest ==
  [][ViewFrame =>
       /\ \A i \in 1..Len(enemies) :
            (enemies'[i].alive \/ enemies'[i].dying)
              /\ onColumn(enemies'[i].x, enemies'[i].y) =>
            (drawnInPass("enemy", i) <=>
               Dist2(enemies'[i].x, enemies'[i].y, player'.x, player'.y)
                 < wallDepthSq(enemies'[i].x, enemies'[i].y))
       /\ \A i \in 1..Len(decorations) :
            onColumn(decorations[i].x, decorations[i].y) =>
            (drawnInPass("decoration", i) <=>
               Dist2(decorations[i].x, decorations[i].y, player'.x, player'.y)
                 < wallDepthSq(decorations[i].x, decorations[i].y))]_vars

\* the pass drew a billboard in front of the wall of its column and left
\* out one that stands behind the wall of its column
C21_Witness ==
  /\ renderPass.order # <<>> /\ gameState = "playing"
  /\ Len(renderPass.drawn) > 0
  /\ \E i \in 1..Len(enemies) :
       /\ rayIndex(player, enemies[i].x, enemies[i].y) \in Columns
       /\ Dist2(enemies[i].x, enemies[i].y, player.x, player.y)
            < renderPass.rays[rayIndex(player, enemies[i].x,
                                       enemies[i].y)].depthSq
       /\ \E k \in 1..Len(renderPass.drawn) :
            renderPass.drawn[k] = [kind |-> "enemy", index |-> i]
  /\ \E i \in 1..Len(decorations) :
       /\ rayIndex(player, decorations[i].x, decorations[i].y) \in Columns
       /\ Dist2(decorations[i].x, decorations[i].y, player.x, player.y)
            >= renderPass.rays[rayIndex(player, decorations[i].x,
                                        decorations[i].y)].depthSq
       /\ \A k \in 1..Len(renderPass.drawn) :
            renderPass.drawn[k] # [kind |-> "decoration", index |-> i]

\* the last cell of the walk of column i: the cell the ray hit
hitCell(rays, i) == rays[i].cells[Len(rays[i].cells)]

\* column i hit the flat wall the central ray hit, on a face perpendicular
\* to the view axis: both walks end on a side of the view axis (the central
\* ray crosses no other side), in the same line of cells across the axis,
\* and every cell of that line between the two is a wall
sameFlatWall(rays, i) ==
  LET c == hitCell(rays, numRays \div 2)
      h == hitCell(rays, i)
      axis == rays[numRays \div 2].side
  IN /\ ~rays[i].outside /\ ~rays[numRays \div 2].outside
     /\ rays[i].side = axis
     /\ IF axis = 0
          THEN /\ h[1] = c[1]
               /\ \A y \in Min(c[2], h[2])..Max(c[2], h[2]) :
                    MapRead(y, c[1]) = "wall"
          ELSE /\ h[2] = c[2]
               /\ \A x \in Min(c[1], h[1])..Max(c[1], h[1]) :
                    MapRead(c[2], x) = "wall"

\* C22: in the depth buffer of a render pass every column that hit the flat
\* wall the central ray hit, on a face perpendicular to the view axis,
\* holds the depth the central column holds (the distance along the view
\* axis, not the length of the ray).
C22_DepthIsPerpendicular ==
  renderPass.order # <<>> =>
    \A i \in Columns :
      sameFlatWall(renderPass.rays, i) =>
        renderPass.rays[i].depthSq = renderPass.rays[numRays \div 2].depthSq

\* the frame callback that ran last had a render pass (the pose has not
\* changed since: no other step moves or turns the player)
renderedLast == \E k \in 1..Len(frameOrder) : frameOrder[k] = "render"

\* C23: a render pass with the player at (2.5, 2.5) facing angle 0, where
\* the map has a wall at column 5 of the player's row, walks the central ray
\* through the cells of columns 3, 4 and 5 of that row, ends on an x side
\* and records the depth 2.5 for column numRays / 2.
C23_CentralRay ==
  /\ renderedLast
  /\ player.x = (5 * U) \div 2 /\ player.y = (5 * U) \div 2 /\ player.angle = 0
  /\ MapRead(2, 5) = "wall"
  => /\ renderPass.rays[numRays \div 2].cells
          = << <<3, 2>>, <<4, 2>>, <<5, 2>> >>
     /\ renderPass.rays[numRays \div 2].side = 0
     /\ ~renderPass.rays[numRays \div 2].outside
     /\ 4 * renderPass.rays[numRays \div 2].depthSq = (5 * U) * (5 * U)
     /\ 2 * renderPass.zBuf[1] = 5 * U

\* a Playing frame has rendered the view from the spawn pose
C23_Witness ==
  /\ renderedLast /\ gameState = "playing"
  /\ player.x = (5 * U) \div 2 /\ player.y = (5 * U) \div 2 /\ player.angle = 0
  /\ renderPass.rays[numRays \div 2].side = 0

\* C24: a step that applies the loss transition (the session was not over
\* and contact damage takes health to <= 0) does not apply the win
\* transition as well: it leaves the Lost overlay, not the Won overlay.
C24_LostExcludesWon ==
  [][~gameOver /\ gameOver' /\ health' <= 0 /\ health' < health =>
       overlay' = "lost"]_vars

\* C25: no step restarts or extends the death countdown of an enemy that is
\* Dying (its remaining time never grows, whatever shots are fired), and an
\* enemy that is Dead stays Dead.
C25_DeathCountdownRunsOnce ==
  [][\A i \in 1..Len(enemies) :
       /\ IsDying(enemies[i]) =>
            enemies'[i].deathTimer <= enemies[i].deathTimer
       /\ IsDead(enemies[i]) => IsDead(enemies'[i])]_vars

\* the squared distance to the player of a billboard the pass of the step
\* drew
drawnDist2(b) ==
  IF b.kind = "enemy"
    THEN Dist2(enemies'[b.index].x, enemies'[b.index].y, player'.x, player'.y)
    ELSE Dist2(decorations[b.index].x, decorations[b.index].y,
               player'.x, player'.y)

\* C26: the billboards a render pass draws, enemies and decorations
\* together, are drawn back to front: one drawn before another is at least
\* as far from the player.
C26_BackToFront ==
  [][ViewFrame =>
       \A k, l \in 1..Len(renderPass'.drawn) :
         k < l => drawnDist2(renderPass'.drawn[k])
                    >= drawnDist2(renderPass'.drawn[l])]_vars

\* a reload is pending for a weapon other than the selected one
reloadOfOther == reloading /\ \E t \in timers : t.weapon # selectedWeapon

\* C27: the completion a reload schedules belongs to the weapon selected
\* when the reload starts; selecting the other weapon while it is pending
\* leaves the reload, the magazines and the reserves as they are; and while
\* a reload of the other weapon is pending no step fires the selected
\* weapon or starts a reload of it (magazines, reserves, the pending
\* completion and the kill counter stay as they are) until the completion,
\* which refills the weapon it belongs to and leaves the selected weapon's
\* magazine and reserve unchanged.
C27_ReloadBelongsToWeapon ==
  [][/\ ~reloading /\ reloading' =>
          timers' = {[id |-> reloadTimer', weapon |-> selectedWeapon]}
     /\ reloading /\ selectedWeapon' # selectedWeapon =>
          reloading' /\ UNCHANGED <<weapons, timers, reloadTimer>>
     /\ reloadOfOther /\ reloading' =>
          UNCHANGED <<weapons, timers, reloadTimer, kills>>
     /\ reloadOfOther /\ ~reloading' =>
          \E t \in timers :
            /\ timers' = {}
            /\ weapons'[selectedWeapon] = weapons[selectedWeapon]
            /\ weapons'[t.weapon].magazine =
                 AmmoMin(weapons[t.weapon].ammoCapacity,
                         AmmoAdd(weapons[t.weapon].magazine,
                                 weapons[t.weapon].totalAmmo))]_vars

\* the other weapon was selected while a reload was pending: the selected
\* weapon has rounds in its magazine, the weapon of the pending completion
\* has none
C27_Witness ==
  /\ reloadOfOther
  /\ weapons[selectedWeapon].magazine > 0
  /\ \E t \in timers : weapons[t.weapon].magazine = 0

\* the enemies of the array that are not Dead (Alive or Dying)
nonDead(es) == {i \in 1..Len(es) : ~IsDead(es[i])}

\* C28: in every reachable state at most ACTIVE_ENEMY_COUNT enemies of the
\* array are not Dead.
C28_ActiveEnemiesCapped == Cardinality(nonDead(enemies)) <= ACTIVE_ENEMY_COUNT

\* a frame's spawn step has replaced a Dead enemy: the array is longer than
\* the cap, holds a Dead enemy, and the enemies that are not Dead are exactly
\* ACTIVE_ENEMY_COUNT
C28_Witness ==
  /\ gameState = "playing"
  /\ spawnLog.called /\ spawnLog.found
  /\ Len(enemies) > ACTIVE_ENEMY_COUNT
  /\ \E i \in 1..Len(enemies) : IsDead(enemies[i])
  /\ Cardinality(nonDead(enemies)) = ACTIVE_ENEMY_COUNT

\* magazines between 0 and the capacity, reserves not negative
ammoInRange ==
  \A w \in WeaponKeys :
    /\ 0 <= weapons[w].magazine
    /\ weapons[w].magazine <= weapons[w].ammoCapacity
    /\ weapons[w].totalAmmo = Infinity \/ weapons[w].totalAmmo >= 0

\* a fire input reaches shootWeapon, which accepts it
shotAccepted ==
  /\ ~gameOver /\ ~reloading
  /\ weapons[selectedWeapon].magazine > 0
  /\ Click \/ (gameState = "playing" /\ keydown("Space"))

\* C29: every magazine stays between 0 and its capacity and every reserve
\* stays at or above 0; an accepted shot takes exactly one round from the
\* selected weapon's magazine, with or without an enemy in the crosshair,
\* and leaves the other magazine and the reserves alone; no step takes more
\* than one round from a magazine; and a fire input made while the session
\* is terminal or a reload is in progress changes nothing.
C29_AmmoAccounting ==
  /\ []ammoInRange
  /\ [][/\ shotAccepted =>
           /\ weapons'[selectedWeapon].magazine =
                weapons[selectedWeapon].magazine - 1
           /\ \A w \in WeaponKeys \ {selectedWeapon} :
                weapons'[w] = weapons[w]
           /\ weapons'[selectedWeapon].totalAmmo =
                weapons[selectedWeapon].totalAmmo
        /\ \A w \in WeaponKeys :
             weapons'[w].magazine < weapons[w].magazine =>
               /\ w = selectedWeapon
               /\ weapons'[w].magazine = weapons[w].magazine - 1
        /\ (gameOver \/ reloading) /\ FireInput => UNCHANGED vars]_vars

\* two rounds of the rifle are gone for one kill, the second of them just
\* fired: one accepted shot hit an enemy and one hit none
C29_Witness ==
  /\ gameState = "playing" /\ selectedWeapon = "shotgun"
  /\ muzzleTimer = 3 /\ bulletTimer = 2
  /\ weapons["shotgun"].magazine = RifleCapacity - 2
  /\ weapons["laser"].magazine = LaserCapacity
  /\ kills = 1

\* the cells of the map, as <<mapX, mapY>>
mapCells == (0..(mapWidth - 1)) \X (0..(mapHeight - 1))
onBorder(c) ==
  c[1] = 0 \/ c[1] = mapWidth - 1 \/ c[2] = 0 \/ c[2] = mapHeight - 1

\* the walk of a ray ended by entering a wall cell of the map: it never
\* stepped outside, every cell before the last one is an empty cell of the
\* map, and it took no more steps than the map has rows and columns
endsAtWall(c) ==
  /\ ~c.outside
  /\ Len(c.cells) \in 1..(mapWidth + mapHeight)
  /\ \A k \in 1..Len(c.cells) :
       /\ c.cells[k] \in mapCells
       /\ MapRead(c.cells[k][2], c.cells[k][1]) =
            IF k = Len(c.cells) THEN "wall" ELSE "empty"

\* C30: every cell on the border of the map is a wall, and the walk of
\* every ray cast from a player position in an empty cell ends by entering
\* a wall cell inside the map, never by stepping outside it.
C30_RaysEndInsideMap ==
  /\ \A c \in mapCells : onBorder(c) => MapRead(c[2], c[1]) = "wall"
  /\ (/\ renderPass.rays # <<>>
      /\ MapRead(Floor(player.y), Floor(player.x)) = "empty") =>
       \A i \in Columns : endsAtWall(renderPass.rays[i])

\* a pass whose central ray ran the length of a corridor to the border
\* wall while another of its rays stopped at a wall in the interior
C30_Witness ==
  /\ renderPass.rays # <<>>
  /\ Len(renderPass.rays[240].cells) >= mapWidth - 3
  /\ onBorder(renderPass.rays[240].cells[Len(renderPass.rays[240].cells)])
  /\ \E i \in Columns :
       /\ Len(renderPass.rays[i].cells) > 1
       /\ ~onBorder(renderPass.rays[i].cells[Len(renderPass.rays[i].cells)])

=============================================================================
